---- MODULE Spec2Model ----
(***************************************************************************)
(* Model of lmem.c: a first-fit heap allocator over brk with an mmap path  *)
(* for large requests.  Pointers are byte addresses.  The heap is one      *)
(* array of machine words, mem: a block header is the four words at the    *)
(* block's address (isfree, size, prev, next), and payload words are       *)
(* ordinary words of the same array, so a data store over a header or a    *)
(* header store over data changes what the other reads, as in C.  Every    *)
(* request length of the model is a whole number of words, so every store  *)
(* covers whole words.                                                     *)
(***************************************************************************)
EXTENDS Integers, Sequences, FiniteSets, TLC

(* ---------------- program constants ---------------- *)
NULL == 0
WORD == 8
HDR == 4 * WORD
LMEM_PAGESIZE == 4096
LMEM_NEXT_MMAP == -1
LMEM_MMAP_TRESHOLD == LMEM_PAGESIZE * 16
BRK_FAILED == -1
MAP_FAILED == -1

(* ---------------- bounds of the model ---------------- *)
MaxUnits == 5
MaxMaps == 2

(* ---------------- environment ---------------- *)
(* the initial break lies above every address ( struct memblk_t * ) -1 +   *)
(* size that a request below the threshold can form                        *)
HeapBase == 32 * LMEM_PAGESIZE
HeapLimit == HeapBase + MaxUnits * HDR
MapRegion == 256 * LMEM_PAGESIZE
MapIds == 1..MaxMaps
MapBase(i) == MapRegion * i
MapIdOf(a) == a \div MapRegion
IsMapAddr(a) == a >= MapRegion /\ a % MapRegion = 0 /\ MapIdOf(a) \in MapIds

WordAddrs == {HeapBase + k * WORD : k \in 0..(4 * MaxUnits - 1)}

(* word values: the program's data word i of an allocation is Pat(i); a    *)
(* word read outside the break or from the destination of an overlapping   *)
(* copy is INDET                                                           *)
INDET == -2
PatBase == 10001
Pat(i) == PatBase + i

(* content of a mapping, abstracted to one token *)
FILL_ZERO == 0
FILL_PAT == 1
FILL_COPIED == 2

FieldOff(f) == CASE f = "isfree" -> 0
                 [] f = "size" -> WORD
                 [] f = "prev" -> 2 * WORD
                 [] f = "next" -> 3 * WORD

NoMap == [mapped |-> FALSE, oslen |-> 0, isfree |-> 0, size |-> 0,
          prev |-> 0, next |-> 0, fill |-> FILL_ZERO]

VARIABLES head, tail, last_break, os_brk, mem, maps, live

vars == <<head, tail, last_break, os_brk, mem, maps, live>>

(* the allocator's and the OS's state as one record *)
St == [head |-> head, tail |-> tail, last_break |-> last_break,
       os_brk |-> os_brk, mem |-> mem, maps |-> maps]

(* ---------------- memory access ---------------- *)
(* block->f *)
Rd(st, a, f) ==
  IF IsMapAddr(a) THEN st.maps[MapIdOf(a)][f] ELSE st.mem[a + FieldOff(f)]

(* block->f = v *)
Wr(st, a, f, v) ==
  IF IsMapAddr(a)
  THEN [st EXCEPT !.maps[MapIdOf(a)][f] = v]
  ELSE [st EXCEPT !.mem[a + FieldOff(f)] = v]

(* memset ( p, 0, n ) *)
memset0(st, p, n) ==
  IF IsMapAddr(p - HDR)
  THEN [st EXCEPT !.maps[MapIdOf(p - HDR)].fill = FILL_ZERO]
  ELSE [st EXCEPT !.mem = [b \in WordAddrs |->
                     IF p <= b /\ b < p + n THEN 0 ELSE @[b]]]

(* the word memcpy reads at address a while copying n bytes to dst *)
SrcWord(st, a, dst, n) ==
  IF dst <= a /\ a < dst + n THEN INDET
  ELSE IF a \in WordAddrs /\ a < st.os_brk THEN st.mem[a]
  ELSE INDET

(* mutant: the last word is not copied *)
memcpy_Short(st, dst, src, n) ==
  IF IsMapAddr(dst - HDR)
  THEN [st EXCEPT !.maps[MapIdOf(dst - HDR)].fill = FILL_COPIED]
  ELSE [st EXCEPT !.mem = [b \in WordAddrs |->
                     IF dst <= b /\ b < dst + n - WORD
                     THEN SrcWord(st, src + (b - dst), dst, n) ELSE @[b]]]

(* memcpy ( dst, src, n ) from a heap region *)
memcpy(st, dst, src, n) ==
  IF IsMapAddr(dst - HDR)
  THEN [st EXCEPT !.maps[MapIdOf(dst - HDR)].fill = FILL_COPIED]
  ELSE [st EXCEPT !.mem = [b \in WordAddrs |->
                     IF dst <= b /\ b < dst + n
                     THEN SrcWord(st, src + (b - dst), dst, n) ELSE @[b]]]

(* ---------------- the OS ---------------- *)
(* os is what the OS decides for the one request an operation makes that   *)
(* can fail: 0 refuses it, i > 0 grants it and places a mapping at slot i   *)
(* (a slot in use is refused).                                             *)
OSChoices == 0..MaxMaps
(* for a break request only refusal (0) and grant (1) differ *)
BrkChoices == 0..1

(* _brk ( x ): the new break, or -1.  A target outside the heap region is  *)
(* refused.                                                                *)
brk(st, x, os) ==
  IF x = 0 THEN [st |-> st, ret |-> st.os_brk]
  ELSE IF os # 0 /\ HeapBase <= x /\ x <= HeapLimit
       THEN [st |-> [st EXCEPT !.os_brk = x], ret |-> x]
       ELSE [st |-> st, ret |-> BRK_FAILED]

(* mmap ( NULL, len, ... , MAP_PRIVATE | MAP_ANONYMOUS, -1, 0 ) *)
mmap(st, len, os) ==
  IF os # 0 /\ ~st.maps[os].mapped
  THEN [st |-> [st EXCEPT !.maps[os] =
                   [NoMap EXCEPT !.mapped = TRUE, !.oslen = len]],
        ret |-> MapBase(os)]
  ELSE [st |-> st, ret |-> MAP_FAILED]

(* munmap ( block, len ): the first len bytes of the mapping are unmapped; *)
(* what lies behind them stays mapped                                      *)
munmap(st, block, len) ==
  IF len >= st.maps[MapIdOf(block)].oslen
  THEN [st EXCEPT !.maps[MapIdOf(block)] = NoMap]
  ELSE [st EXCEPT !.maps[MapIdOf(block)].oslen = @ - len]

(* mremap ( block, oldlen, len, MREMAP_MAYMOVE ) *)
mremap(st, block, oldlen, len, os) ==
  LET i == MapIdOf(block)
      j == os
  IN IF j = 0 \/ (j # i /\ st.maps[j].mapped)
     THEN [st |-> st, ret |-> MAP_FAILED]
     ELSE IF j = i
          THEN [st |-> [st EXCEPT !.maps[i].oslen = len], ret |-> block]
          ELSE [st |-> [st EXCEPT !.maps[j] = [st.maps[i] EXCEPT !.oslen = len],
                                  !.maps[i] = NoMap],
                ret |-> MapBase(j)]

(* ---------------- lmem.c ---------------- *)
(* e; F: the value of e is computed once and handed to the statements F    *)
(* that follow it                                                          *)
Then(e, F(_)) == CHOOSE y \in {F(x) : x \in {e}} : TRUE

(* mutant: the break is advanced by one unit more than asked for *)
new_memblk_OneMore(st, size, os) ==
  Then(IF st.last_break = NULL
       THEN [st EXCEPT !.last_break = brk(st, 0, os).ret]
       ELSE st, LAMBDA s1 :
  Then(brk(s1, s1.last_break + (size + 1) * HDR, os), LAMBDA r :
  Then([r.st EXCEPT !.last_break = r.ret], LAMBDA s2 :
    IF s2.last_break = BRK_FAILED
    THEN [st |-> s2, ret |-> BRK_FAILED]
    ELSE [st |-> s2, ret |-> s2.last_break - size * HDR])))

new_memblk(st, size, os) ==
  Then(IF st.last_break = NULL
       THEN [st EXCEPT !.last_break = brk(st, 0, os).ret]
       ELSE st, LAMBDA s1 :
  Then(brk(s1, s1.last_break + size * HDR, os), LAMBDA r :
  Then([r.st EXCEPT !.last_break = r.ret], LAMBDA s2 :
    IF s2.last_break = BRK_FAILED
    THEN [st |-> s2, ret |-> BRK_FAILED]
    ELSE [st |-> s2, ret |-> s2.last_break - size * HDR])))

(* mutant: the remainder gets the size of the whole block *)
lmem_split_block_FullUpper(st, block, size) ==
  Then(block + size * HDR, LAMBDA upper :
  Then(Wr(st, upper, "isfree", 1), LAMBDA s1 :
  Then(Wr(s1, upper, "size", Rd(s1, block, "size")), LAMBDA s2 :
  Then(Wr(s2, block, "size", size), LAMBDA s3 :
  Then(Wr(s3, upper, "prev", block), LAMBDA s4 :
  Then(Wr(s4, upper, "next", Rd(s4, block, "next")), LAMBDA s5 :
  Then(IF Rd(s5, block, "next") # NULL
       THEN Wr(s5, Rd(s5, block, "next"), "prev", upper)
       ELSE [s5 EXCEPT !.tail = upper], LAMBDA s6 :
    Wr(s6, block, "next", upper))))))))

(* mutant: the former successor keeps the split block as its prev *)
lmem_split_block_NoBackLink(st, block, size) ==
  Then(block + size * HDR, LAMBDA upper :
  Then(Wr(st, upper, "isfree", 1), LAMBDA s1 :
  Then(Wr(s1, upper, "size", Rd(s1, block, "size") - size), LAMBDA s2 :
  Then(Wr(s2, block, "size", size), LAMBDA s3 :
  Then(Wr(s3, upper, "prev", block), LAMBDA s4 :
  Then(Wr(s4, upper, "next", Rd(s4, block, "next")), LAMBDA s5 :
  Then(IF Rd(s5, block, "next") # NULL
       THEN s5
       ELSE [s5 EXCEPT !.tail = upper], LAMBDA s6 :
    Wr(s6, block, "next", upper))))))))

(* mutant: tail stays on the split block when it was the last one *)
lmem_split_block_NoTail(st, block, size) ==
  Then(block + size * HDR, LAMBDA upper :
  Then(Wr(st, upper, "isfree", 1), LAMBDA s1 :
  Then(Wr(s1, upper, "size", Rd(s1, block, "size") - size), LAMBDA s2 :
  Then(Wr(s2, block, "size", size), LAMBDA s3 :
  Then(Wr(s3, upper, "prev", block), LAMBDA s4 :
  Then(Wr(s4, upper, "next", Rd(s4, block, "next")), LAMBDA s5 :
  Then(IF Rd(s5, block, "next") # NULL
       THEN Wr(s5, Rd(s5, block, "next"), "prev", upper)
       ELSE s5, LAMBDA s6 :
    Wr(s6, block, "next", upper))))))))

lmem_split_block(st, block, size) ==
  Then(block + size * HDR, LAMBDA upper :
  Then(Wr(st, upper, "isfree", 1), LAMBDA s1 :
  Then(Wr(s1, upper, "size", Rd(s1, block, "size") - size), LAMBDA s2 :
  Then(Wr(s2, block, "size", size), LAMBDA s3 :
  Then(Wr(s3, upper, "prev", block), LAMBDA s4 :
  Then(Wr(s4, upper, "next", Rd(s4, block, "next")), LAMBDA s5 :
  Then(IF Rd(s5, block, "next") # NULL
       THEN Wr(s5, Rd(s5, block, "next"), "prev", upper)
       ELSE [s5 EXCEPT !.tail = upper], LAMBDA s6 :
    Wr(s6, block, "next", upper))))))))

(* mutant: tail is set to the new block before the result is tested *)
lmalloc_new_block_TailFirst(st, size, os) ==
  Then(new_memblk(st, size, os), LAMBDA r :
    IF r.ret = BRK_FAILED
    THEN [st |-> [r.st EXCEPT !.tail = r.ret], ret |-> NULL]
    ELSE Then(r.ret, LAMBDA block :
         Then(Wr(r.st, block, "isfree", 0), LAMBDA s1 :
         Then(Wr(s1, block, "size", size), LAMBDA s2 :
         Then(Wr(s2, block, "prev", s2.tail), LAMBDA s3 :
         Then(Wr(s3, block, "next", NULL), LAMBDA s4 :
         Then(IF s4.head = NULL THEN [s4 EXCEPT !.head = block] ELSE s4, LAMBDA s5 :
         Then(IF s5.tail # NULL THEN Wr(s5, s5.tail, "next", block) ELSE s5, LAMBDA s6 :
           [st |-> [s6 EXCEPT !.tail = block], ret |-> block + HDR]))))))))

lmalloc_new_block(st, size, os) ==
  Then(new_memblk(st, size, os), LAMBDA r :
    IF r.ret = BRK_FAILED
    THEN [st |-> r.st, ret |-> NULL]
    ELSE Then(r.ret, LAMBDA block :
         Then(Wr(r.st, block, "isfree", 0), LAMBDA s1 :
         Then(Wr(s1, block, "size", size), LAMBDA s2 :
         Then(Wr(s2, block, "prev", s2.tail), LAMBDA s3 :
         Then(Wr(s3, block, "next", NULL), LAMBDA s4 :
         Then(IF s4.head = NULL THEN [s4 EXCEPT !.head = block] ELSE s4, LAMBDA s5 :
         Then(IF s5.tail # NULL THEN Wr(s5, s5.tail, "next", block) ELSE s5, LAMBDA s6 :
           [st |-> [s6 EXCEPT !.tail = block], ret |-> block + HDR]))))))))

(* ( len + sizeof ( struct memblk_t ) + LMEM_PAGESIZE - 1 ) & ~( LMEM_PAGESIZE - 1 ) *)
PageAlign(len) == ((len + HDR + LMEM_PAGESIZE - 1) \div LMEM_PAGESIZE) * LMEM_PAGESIZE

(* mutant: the unit of the header is not counted *)
BlockSize_NoHeader(len) == (len + HDR - 1) \div HDR

(* ( len + sizeof ( struct memblk_t ) - 1 ) / sizeof ( struct memblk_t ) + 1 *)
BlockSize(len) == (len + HDR - 1) \div HDR + 1

(* mutant: the scan keeps the last free block of at least size units *)
RECURSIVE FirstFit_LastFit(_, _, _)
FirstFit_LastFit(st, block, size) ==
  IF block = NULL THEN NULL
  ELSE Then(FirstFit_LastFit(st, Rd(st, block, "next"), size), LAMBDA later :
         IF later # NULL THEN later
         ELSE IF Rd(st, block, "isfree") # 0 /\ Rd(st, block, "size") >= size
              THEN block ELSE NULL)

(* for ( block = head; block; block = block->next ): the first free block  *)
(* of at least size units, NULL when the scan ends                         *)
RECURSIVE FirstFit(_, _, _)
FirstFit(st, block, size) ==
  IF block = NULL THEN NULL
  ELSE IF Rd(st, block, "isfree") # 0 /\ Rd(st, block, "size") >= size THEN block
  ELSE FirstFit(st, Rd(st, block, "next"), size)

lmalloc_mmap(st, len, os) ==
  Then(PageAlign(len), LAMBDA len2 :
  Then(mmap(st, len2, os), LAMBDA r :
    IF r.ret = MAP_FAILED
    THEN [st |-> r.st, ret |-> NULL]
    ELSE Then(Wr(r.st, r.ret, "next", LMEM_NEXT_MMAP), LAMBDA s1 :
           [st |-> Wr(s1, r.ret, "size", len2), ret |-> r.ret + HDR])))

(* mutant: a request of exactly the threshold stays on the heap *)
lmalloc_AboveThreshold(st, len, os) ==
  IF len > LMEM_MMAP_TRESHOLD
  THEN lmalloc_mmap(st, len, os)
  ELSE Then(BlockSize(len), LAMBDA size :
       Then(FirstFit(st, st.head, size), LAMBDA block :
         IF block # NULL
         THEN Then(IF Rd(st, block, "size") > size
                   THEN lmem_split_block(st, block, size)
                   ELSE st, LAMBDA s1 :
                [st |-> Wr(s1, block, "isfree", 0), ret |-> block + HDR])
         ELSE lmalloc_new_block(st, size, os)))

lmalloc(st, len, os) ==
  IF len >= LMEM_MMAP_TRESHOLD
  THEN lmalloc_mmap(st, len, os)
  ELSE Then(BlockSize(len), LAMBDA size :
       Then(FirstFit(st, st.head, size), LAMBDA block :
         IF block # NULL
         THEN Then(IF Rd(st, block, "size") > size
                   THEN lmem_split_block(st, block, size)
                   ELSE st, LAMBDA s1 :
                [st |-> Wr(s1, block, "isfree", 0), ret |-> block + HDR])
         ELSE lmalloc_new_block(st, size, os)))

(* a size_t operand of lcalloc as hi * 2^32 + lo with both digits below    *)
(* 2^15, enough to state operands whose product passes 2^64                *)
SizeT(h, l) == [hi |-> h, lo |-> l]

(* nlen * len in size_t arithmetic: the product modulo 2^64.  With digits  *)
(* below 2^15 no digit of the product carries, and the 2^64 digit          *)
(* (nlen.hi * len.hi) is the part the machine drops.                       *)
SizeMul(nlen, len) == [hi |-> nlen.hi * len.lo + nlen.lo * len.hi,
                       lo |-> nlen.lo * len.lo]

(* the operands of the model keep the product below 2^32: size is its low  *)
(* digit                                                                   *)
lcalloc(st, nlen, len, os) ==
  Then(SizeMul(nlen, len).lo, LAMBDA size :
  Then(lmalloc(st, size, os), LAMBDA r :
    IF r.ret # NULL
    THEN [st |-> memset0(r.st, r.ret, size), ret |-> r.ret]
    ELSE r))

(* mutant: a block without a free left neighbour is not marked free *)
lfree_left_merge_NoMark(st, block) ==
  Then(Rd(st, block, "prev"), LAMBDA prev :
    IF prev # NULL /\ Rd(st, prev, "isfree") # 0
    THEN Then(Wr(st, prev, "next", Rd(st, block, "next")), LAMBDA s1 :
         Then(IF Rd(s1, block, "next") # NULL
              THEN Wr(s1, Rd(s1, block, "next"), "prev", Rd(s1, block, "prev"))
              ELSE [s1 EXCEPT !.tail = Rd(s1, block, "prev")], LAMBDA s2 :
           Wr(s2, prev, "size", Rd(s2, prev, "size") + Rd(s2, block, "size"))))
    ELSE st)

(* mutant: the left neighbour is not expanded by the merged block *)
lfree_left_merge_NoExpand(st, block) ==
  Then(Rd(st, block, "prev"), LAMBDA prev :
    IF prev # NULL /\ Rd(st, prev, "isfree") # 0
    THEN Then(Wr(st, prev, "next", Rd(st, block, "next")), LAMBDA s1 :
           IF Rd(s1, block, "next") # NULL
           THEN Wr(s1, Rd(s1, block, "next"), "prev", Rd(s1, block, "prev"))
           ELSE [s1 EXCEPT !.tail = Rd(s1, block, "prev")])
    ELSE Wr(st, block, "isfree", 1))

(* mutant: the next link of the merged block is cleared when it is unlinked *)
lfree_left_merge_ClearNext(st, block) ==
  Then(Rd(st, block, "prev"), LAMBDA prev :
    IF prev # NULL /\ Rd(st, prev, "isfree") # 0
    THEN Then(Wr(st, prev, "next", Rd(st, block, "next")), LAMBDA s1 :
         Then(IF Rd(s1, block, "next") # NULL
              THEN Wr(s1, Rd(s1, block, "next"), "prev", Rd(s1, block, "prev"))
              ELSE [s1 EXCEPT !.tail = Rd(s1, block, "prev")], LAMBDA s2 :
         Then(Wr(s2, prev, "size", Rd(s2, prev, "size") + Rd(s2, block, "size")),
              LAMBDA s3 : Wr(s3, block, "next", NULL))))
    ELSE Wr(st, block, "isfree", 1))

lfree_left_merge(st, block) ==
  Then(Rd(st, block, "prev"), LAMBDA prev :
    IF prev # NULL /\ Rd(st, prev, "isfree") # 0
    THEN Then(Wr(st, prev, "next", Rd(st, block, "next")), LAMBDA s1 :
         Then(IF Rd(s1, block, "next") # NULL
              THEN Wr(s1, Rd(s1, block, "next"), "prev", Rd(s1, block, "prev"))
              ELSE [s1 EXCEPT !.tail = Rd(s1, block, "prev")], LAMBDA s2 :
           Wr(s2, prev, "size", Rd(s2, prev, "size") + Rd(s2, block, "size"))))
    ELSE Wr(st, block, "isfree", 1))

(* mutant: the block behind the released one is not merged *)
lfree_NoUpperMerge(st, addr) ==
  Then(addr - HDR, LAMBDA block :
    IF addr = NULL THEN st
    ELSE IF Rd(st, block, "next") = LMEM_NEXT_MMAP
         THEN munmap(st, block, Rd(st, block, "size"))
         ELSE lfree_left_merge(st, block))

lfree(st, addr) ==
  Then(addr - HDR, LAMBDA block :
    IF addr = NULL THEN st
    ELSE IF Rd(st, block, "next") = LMEM_NEXT_MMAP
         THEN munmap(st, block, Rd(st, block, "size"))
         ELSE Then(lfree_left_merge(st, block), LAMBDA s1 :
                IF Rd(s1, block, "next") # NULL
                   /\ Rd(s1, Rd(s1, block, "next"), "isfree") # 0
                THEN lfree_left_merge(s1, Rd(s1, block, "next"))
                ELSE s1))

(* mutant: the stored size is not updated after the mapping was resized *)
lrealloc_mmap_NoSize(st, block, len, os) ==
  Then(PageAlign(len), LAMBDA len2 :
  Then(mremap(st, block, Rd(st, block, "size"), len2, os), LAMBDA r :
    IF r.ret = MAP_FAILED
    THEN [st |-> r.st, ret |-> NULL]
    ELSE [st |-> r.st, ret |-> r.ret + HDR]))

lrealloc_mmap(st, block, len, os) ==
  Then(PageAlign(len), LAMBDA len2 :
  Then(mremap(st, block, Rd(st, block, "size"), len2, os), LAMBDA r :
    IF r.ret = MAP_FAILED
    THEN [st |-> r.st, ret |-> NULL]
    ELSE [st |-> Wr(r.st, r.ret, "size", len2), ret |-> r.ret + HDR]))

(* mutant: the current block is freed before the new one is allocated *)
lrealloc_FreeFirst(st, addr, len, os) ==
  Then(addr - HDR, LAMBDA block :
    IF addr = NULL THEN lmalloc(st, len, os)
    ELSE IF Rd(st, block, "next") = LMEM_NEXT_MMAP
         THEN Then(lrealloc_mmap(st, block, len, os), LAMBDA r :
                IF r.ret = NULL
                THEN [st |-> munmap(r.st, block, Rd(st, block, "size")), ret |-> NULL]
                ELSE r)
         ELSE Then(lfree(st, addr), LAMBDA s0 :
              Then(lmalloc(s0, len, os), LAMBDA r :
                IF r.ret = NULL THEN r
                ELSE [st |-> memcpy(r.st, r.ret, addr, len), ret |-> r.ret])))

(* mutant: no more than the usable bytes of the current block are copied *)
lrealloc_CopyUsable(st, addr, len, os) ==
  Then(addr - HDR, LAMBDA block :
    IF addr = NULL THEN lmalloc(st, len, os)
    ELSE IF Rd(st, block, "next") = LMEM_NEXT_MMAP
         THEN lrealloc_mmap(st, block, len, os)
         ELSE Then(lmalloc(st, len, os), LAMBDA r :
                IF r.ret = NULL THEN r
                ELSE Then((Rd(st, block, "size") - 1) * HDR, LAMBDA usable :
                     Then(memcpy(r.st, r.ret, addr,
                                 IF len < usable THEN len ELSE usable), LAMBDA s1 :
                       [st |-> lfree(s1, addr), ret |-> r.ret]))))

lrealloc(st, addr, len, os) ==
  Then(addr - HDR, LAMBDA block :
    IF addr = NULL THEN lmalloc(st, len, os)
    ELSE IF Rd(st, block, "next") = LMEM_NEXT_MMAP
         THEN lrealloc_mmap(st, block, len, os)
         ELSE Then(lmalloc(st, len, os), LAMBDA r :
                IF r.ret = NULL THEN r
                ELSE Then(memcpy(r.st, r.ret, addr, len), LAMBDA s1 :
                       [st |-> lfree(s1, addr), ret |-> r.ret])))

(* ---------------- the calling program ---------------- *)
(* request lengths in whole words.  HeapLens: an empty block, one word,    *)
(* two words and the largest length below the threshold; MapLens: one      *)
(* word, the largest length below the threshold and the threshold          *)
HeapLens == {0, WORD, 2 * WORD, LMEM_MMAP_TRESHOLD - WORD}
MapLens == {WORD, LMEM_MMAP_TRESHOLD - WORD, LMEM_MMAP_TRESHOLD}

(* operand pairs of lcalloc; the product of the last heap pair is 2^64     *)
HeapCallocArgs == {<<SizeT(0, 1), SizeT(0, WORD)>>,
                   <<SizeT(0, 2), SizeT(0, WORD)>>,
                   <<SizeT(1, 0), SizeT(1, 0)>>}
MapCallocArgs == {<<SizeT(0, 1), SizeT(0, WORD)>>,
                  <<SizeT(0, 16), SizeT(0, LMEM_PAGESIZE)>>}

LivePtrs == {l.ptr : l \in live}
LiveOf(p) == CHOOSE l \in live : l.ptr = p

(* the blocks linked from b on, in list order *)
RECURSIVE ListFrom(_, _)
ListFrom(st, b) ==
  IF b = NULL THEN <<>> ELSE <<b>> \o ListFrom(st, Rd(st, b, "next"))

Range(q) == {q[i] : i \in 1..Len(q)}

(* Heap words that are neither in the header of a linked block nor in the  *)
(* len bytes of a live allocation are dead: no pointer the allocator or    *)
(* the program holds leads to them.  The model forgets their values        *)
(* between operations (DEAD).                                              *)
DEAD == -3
Forget(st, lv) ==
  Then(Range(ListFrom(st, st.head)), LAMBDA hs :
    [w \in WordAddrs |->
        IF \/ \E b \in hs : b <= w /\ w < b + HDR
           \/ \E l \in lv : l.ptr <= w /\ w < l.ptr + l.len
        THEN st.mem[w] ELSE DEAD])

(* the state after an operation that left st and the live allocations lv *)
Commit(st, lv) ==
  /\ head' = st.head
  /\ tail' = st.tail
  /\ last_break' = st.last_break
  /\ os_brk' = st.os_brk
  /\ mem' = Forget(st, lv)
  /\ maps' = st.maps
  /\ live' = lv

Init ==
  /\ head = NULL
  /\ tail = NULL
  /\ last_break = NULL
  /\ os_brk = HeapBase
  /\ mem = [b \in WordAddrs |-> DEAD]
  /\ maps = [i \in MapIds |-> NoMap]
  /\ live = {}

(* the answers the OS can give to the request of one call: a call that    *)
(* stays on the heap meets _brk, any other call meets mmap or mremap; with *)
(* once, _brk grants no further extension after the first one.  Where the  *)
(* OS is not asked (a free block fits) or cannot grant the address asked   *)
(* for, its answers do not differ and one stands for all.                  *)
OSAnswers(O, once, p, len) ==
  IF (p = NULL \/ ~IsMapAddr(p - HDR)) /\ len < LMEM_MMAP_TRESHOLD
  THEN IF \/ once /\ os_brk > HeapBase
          \/ FirstFit(St, head, BlockSize(len)) # NULL
          \/ new_memblk(St, BlockSize(len), 1).ret = BRK_FAILED
       THEN {0} ELSE BrkChoices
  ELSE O

Malloc(L, O, once) ==
  \E len \in L : \E os \in OSAnswers(O, once, NULL, len) :
    \E r \in {lmalloc(St, len, os)} :
       Commit(r.st, IF r.ret = NULL THEN live
                    ELSE live \cup {[ptr |-> r.ret, len |-> len, w |-> FALSE]})

Calloc(A, O, once) ==
  \E a \in A : \E os \in OSAnswers(O, once, NULL, SizeMul(a[1], a[2]).lo) :
    \E r \in {lcalloc(St, a[1], a[2], os)}, size \in {SizeMul(a[1], a[2]).lo} :
       Commit(r.st, IF r.ret = NULL THEN live
                    ELSE live \cup {[ptr |-> r.ret, len |-> size, w |-> FALSE]})

Free ==
  \E p \in LivePtrs \cup {NULL} :
    \E s1 \in {lfree(St, p)} : Commit(s1, {l \in live : l.ptr # p})

Realloc(L, O, once) ==
  \E p \in LivePtrs \cup {NULL}, len \in L : \E os \in OSAnswers(O, once, p, len) :
    \E r \in {lrealloc(St, p, len, os)},
       keep \in {p # NULL /\ LiveOf(p).w /\ 0 < len /\ len <= LiveOf(p).len} :
       Commit(r.st, IF r.ret = NULL THEN live
                    ELSE {l \in live : l.ptr # p}
                         \cup {[ptr |-> r.ret, len |-> len, w |-> keep]})

(* the program fills the len bytes of an allocation with its data *)
Write ==
  \E l \in live :
    /\ l.len > 0
    /\ ~l.w
    /\ IF IsMapAddr(l.ptr - HDR)
       THEN /\ maps' = [maps EXCEPT ![MapIdOf(l.ptr - HDR)].fill = FILL_PAT]
            /\ UNCHANGED mem
       ELSE /\ mem' = [b \in WordAddrs |->
                         IF l.ptr <= b /\ b < l.ptr + l.len
                         THEN Pat((b - l.ptr) \div WORD) ELSE mem[b]]
            /\ UNCHANGED maps
    /\ live' = (live \ {l}) \cup {[l EXCEPT !.w = TRUE]}
    /\ UNCHANGED <<head, tail, last_break, os_brk>>

(* a program whose requests all stay below the mapping threshold *)
Next == Malloc(HeapLens, BrkChoices, FALSE) \/ Calloc(HeapCallocArgs, BrkChoices, FALSE)
        \/ Free \/ Realloc(HeapLens, BrkChoices, FALSE) \/ Write

Spec == Init /\ [][Next]_vars

(* a program that also makes requests at the mapping threshold, on a     *)
(* system that extends the heap once                                      *)
NextMap == Malloc(MapLens, OSChoices, TRUE) \/ Calloc(MapCallocArgs, OSChoices, TRUE)
           \/ Free \/ Realloc(MapLens, OSChoices, TRUE) \/ Write

SpecMap == Init /\ [][NextMap]_vars

(* ---------------- what the claims speak of ---------------- *)
Blocks(st) == ListFrom(st, st.head)
IsHeapPtr(p) == p # NULL /\ ~IsMapAddr(p - HDR)
HeapLive == {l \in live : IsHeapPtr(l.ptr)}
MapLive == {l \in live : ~IsHeapPtr(l.ptr)}
Size(st, b) == Rd(st, b, "size")
IsFree(st, b) == Rd(st, b, "isfree") # 0
(* the end address of block b *)
EndOf(st, b) == b + Size(st, b) * HDR
(* the usable bytes behind the pointer p: ( size - 1 ) header units *)
Capacity(st, p) == (Size(st, p - HDR) - 1) * HDR
(* the words of the n bytes at p *)
WordsOf(p, n) == {p + i * WORD : i \in 0..((n \div WORD) - 1)}
(* the list of st is ascending in address and contiguous *)
Contiguous(st) ==
  \A bs \in {Blocks(st)} : \A i \in 1..(Len(bs) - 1) :
    bs[i] < bs[i + 1] /\ EndOf(st, bs[i]) = bs[i + 1]

(* C1: every live heap allocation has room for its len bytes, its payload  *)
(* overlaps no other live payload and no header of a linked block, and the *)
(* data the program wrote to it is still there.                            *)
C1_ExclusiveOwnership ==
  \A bs \in {Range(Blocks(St))} : \A l \in HeapLive :
    /\ l.ptr - HDR \in bs
    /\ Capacity(St, l.ptr) >= l.len
    /\ \A k \in HeapLive \ {l} :
         \/ l.ptr + Capacity(St, l.ptr) <= k.ptr
         \/ k.ptr + Capacity(St, k.ptr) <= l.ptr
    /\ \A b \in bs : b + HDR <= l.ptr \/ l.ptr + Capacity(St, l.ptr) <= b
    /\ l.w => \A a \in WordsOf(l.ptr, l.len) : mem[a] = Pat((a - l.ptr) \div WORD)

(* two written live allocations next to a free block *)
C1_Witness ==
  /\ \E l, k \in HeapLive : l # k /\ l.w /\ k.w /\ l.len > WORD
  /\ \E b \in Range(Blocks(St)) : IsFree(St, b)

(* C2: no two blocks adjacent in the list are both free.                   *)
C2_NoAdjacentFree ==
  \A bs \in {Blocks(St)} : \A i \in 1..(Len(bs) - 1) :
    ~(IsFree(St, bs[i]) /\ IsFree(St, bs[i + 1]))

(* a free block that only merging can have made (no request of the model   *)
(* needs more than two units), between two blocks in use                   *)
C2_Witness ==
  \E bs \in {Blocks(St)} : \E i \in 2..(Len(bs) - 1) :
    /\ IsFree(St, bs[i]) /\ Size(St, bs[i]) >= 3
    /\ ~IsFree(St, bs[i - 1]) /\ ~IsFree(St, bs[i + 1])

(* C3: the list is ascending and contiguous, and the tail block ends at    *)
(* the cached break last_break.                                            *)
C3_ContiguousToBreak ==
  /\ Contiguous(St)
  /\ tail # NULL => EndOf(St, tail) = last_break

(* C4 as claimed: from any reachable state, p = allocate(n), release(p),   *)
(* allocate(n) returns p again.                                            *)
C4_ReuseSamePointer ==
  \A n \in HeapLens, os \in BrkChoices : \A r1 \in {lmalloc(St, n, os)} :
    r1.ret # NULL =>
      \A r3 \in {lmalloc(lfree(r1.st, r1.ret), n, os)} : r3.ret = r1.ret

(* C4 amended: the second allocate returns p unless the block of p lies    *)
(* behind a free block (the heap was grown behind a free tail too small    *)
(* for n); then it returns the pointer of that free block, which release   *)
(* merged p's block into.                                                  *)
C4_ReuseUnlessMergedLeft ==
  \A n \in HeapLens, os \in BrkChoices : \A r1 \in {lmalloc(St, n, os)} :
    r1.ret # NULL =>
      \A r3 \in {lmalloc(lfree(r1.st, r1.ret), n, os)} :
      \A prev \in {Rd(r1.st, r1.ret - HDR, "prev")} :
        IF prev # NULL /\ IsFree(r1.st, prev)
        THEN r3.ret = prev + HDR
        ELSE r3.ret = r1.ret

(* a state with a free tail block of one unit: allocate(0) is served from  *)
(* it and comes back, allocate(WORD) grows the heap behind it              *)
C4_Witness ==
  /\ tail # NULL /\ IsFree(St, tail) /\ Size(St, tail) = 1 /\ live # {}
  /\ \E r1 \in {lmalloc(St, 0, 1)} :
       r1.ret = tail + HDR /\ lmalloc(lfree(r1.st, r1.ret), 0, 1).ret = r1.ret
  /\ \E r1 \in {lmalloc(St, WORD, 1)} :
       r1.ret = EndOf(St, tail) + HDR
       /\ lmalloc(lfree(r1.st, r1.ret), WORD, 1).ret = tail + HDR

(* three blocks of live allocations, in use and adjacent in the list *)
Triples(st) ==
  {t \in {SubSeq(Blocks(st), i, i + 2) : i \in 1..(Len(Blocks(st)) - 2)} :
     \A j \in 1..3 : ~IsFree(st, t[j]) /\ t[j] + HDR \in LivePtrs}
Orders == {<<1, 2, 3>>, <<1, 3, 2>>, <<2, 1, 3>>, <<2, 3, 1>>, <<3, 1, 2>>, <<3, 2, 1>>}
ReleaseAll(st, t, o) ==
  lfree(lfree(lfree(st, t[o[1]] + HDR), t[o[2]] + HDR), t[o[3]] + HDR)
(* the free blocks of st that cover the addresses from lo up to hi *)
Covers(st, lo, hi) ==
  {m \in Range(Blocks(st)) : IsFree(st, m) /\ m <= lo /\ hi <= EndOf(st, m)}
(* the size the merged block must have: the three blocks and the free      *)
(* neighbours of the span                                                  *)
SpanSize(st, t) ==
  Size(st, t[1]) + Size(st, t[2]) + Size(st, t[3])
  + (IF Rd(st, t[1], "prev") # NULL /\ IsFree(st, Rd(st, t[1], "prev"))
     THEN Size(st, Rd(st, t[1], "prev")) ELSE 0)
  + (IF Rd(st, t[3], "next") # NULL /\ IsFree(st, Rd(st, t[3], "next"))
     THEN Size(st, Rd(st, t[3], "next")) ELSE 0)

(* C5 as claimed: after the three releases, in any order, one free block   *)
(* covers the span, and an allocate that fits it is served from it         *)
(* without moving the break.                                               *)
C5_CoalescedAndServedFromIt ==
  \A t \in Triples(St), o \in Orders : \A s \in {ReleaseAll(St, t, o)} :
    /\ \E m \in Covers(s, t[1], EndOf(St, t[3])) : Size(s, m) = SpanSize(St, t)
    /\ \A m \in Covers(s, t[1], EndOf(St, t[3])), len \in HeapLens, os \in BrkChoices :
         BlockSize(len) <= Size(s, m) =>
           \A r \in {lmalloc(s, len, os)} :
             /\ r.ret = m + HDR
             /\ r.st.last_break = s.last_break /\ r.st.os_brk = s.os_brk

(* C5 amended: the allocate is served from that block or from a free       *)
(* block before it that fits, without moving the break.                    *)
C5_CoalescedAndServedFromList ==
  \A t \in Triples(St), o \in Orders : \A s \in {ReleaseAll(St, t, o)} :
    /\ \E m \in Covers(s, t[1], EndOf(St, t[3])) : Size(s, m) = SpanSize(St, t)
    /\ \A m \in Covers(s, t[1], EndOf(St, t[3])), len \in HeapLens, os \in BrkChoices :
         BlockSize(len) <= Size(s, m) =>
           \A r \in {lmalloc(s, len, os)} :
             /\ \/ r.ret = m + HDR
                \/ /\ r.ret # NULL /\ r.ret < m
                   /\ IsFree(s, r.ret - HDR)
                   /\ Size(s, r.ret - HDR) >= BlockSize(len)
             /\ r.st.last_break = s.last_break /\ r.st.os_brk = s.os_brk

(* three adjacent live blocks behind a block in use and a free block; the  *)
(* releases in the order B, A, C leave one free block of their sizes       *)
C5_Witness ==
  \E t \in Triples(St) : \E s \in {ReleaseAll(St, t, <<2, 1, 3>>)} :
    /\ Rd(St, t[1], "prev") # NULL /\ ~IsFree(St, Rd(St, t[1], "prev"))
    /\ IsFree(St, head)
    /\ \E m \in Covers(s, t[1], EndOf(St, t[3])) :
         /\ m = t[1] /\ Size(s, m) = 3
         /\ lmalloc(s, 2 * WORD, 0).ret = m + HDR
         /\ lmalloc(s, 0, 0).ret = head + HDR

(* what the heap side of the allocator consists of *)
HeapPart(st) == <<st.head, st.tail, st.last_break, st.mem>>

(* C6: allocate takes the mapping path exactly from the threshold on; an   *)
(* allocate on the mapping path and a release or resize of a mapped block  *)
(* leave head, tail, last_break and the heap memory alone; an allocate     *)
(* below the threshold creates no mapping.                                 *)
C6_ThresholdRouting ==
  /\ \A len \in MapLens, os \in OSChoices : \A r \in {lmalloc(St, len, os)} :
       IF len >= LMEM_MMAP_TRESHOLD
       THEN /\ HeapPart(r.st) = HeapPart(St)
            /\ r.ret # NULL =>
                 /\ ~IsHeapPtr(r.ret)
                 /\ ~maps[MapIdOf(r.ret - HDR)].mapped
                 /\ r.st.maps[MapIdOf(r.ret - HDR)].mapped
                 /\ Rd(r.st, r.ret - HDR, "next") = LMEM_NEXT_MMAP
            /\ os # 0 /\ ~maps[os].mapped => r.ret # NULL
       ELSE /\ r.st.maps = maps
            /\ r.ret # NULL => IsHeapPtr(r.ret)
  /\ \A l \in MapLive :
       /\ HeapPart(lfree(St, l.ptr)) = HeapPart(St)
       /\ \A len \in MapLens, os \in OSChoices :
            HeapPart(lrealloc(St, l.ptr, len, os).st) = HeapPart(St)

(* a written live mapping beside a heap list with a written live block *)
C6_Witness ==
  /\ \E l \in MapLive : l.w
  /\ \E l \in HeapLive : l.w /\ l.ptr - HDR = head
  /\ \E os \in MapIds : lmalloc(St, LMEM_MMAP_TRESHOLD, os).ret # NULL

(* C7: an allocate that fails because the break request is refused leaves  *)
(* head, tail and every header of the list as they were, and the list      *)
(* ascending and contiguous.                                               *)
C7_ExhaustionKeepsList ==
  \A len \in HeapLens, os \in BrkChoices : \A size \in {BlockSize(len)} :
    FirstFit(St, head, size) = NULL /\ new_memblk(St, size, os).ret = BRK_FAILED =>
      \A r \in {lmalloc(St, len, os)} :
        /\ r.ret = NULL
        /\ r.st.head = head /\ r.st.tail = tail
        /\ Blocks(r.st) = Blocks(St)
        /\ \A b \in Range(Blocks(St)), f \in {"isfree", "size", "prev", "next"} :
             Rd(r.st, b, f) = Rd(St, b, f)
        /\ Contiguous(r.st)

(* a break request was refused while the list held blocks in use and a     *)
(* free block                                                              *)
C7_Witness ==
  /\ last_break = BRK_FAILED /\ Len(Blocks(St)) >= 3 /\ HeapLive # {}
  /\ \E b \in Range(Blocks(St)) : IsFree(St, b)
  /\ lmalloc(St, 2 * WORD, 1).ret = NULL

(* the product nlen * len (not reduced modulo 2^64) is at most cap *)
ProductFits(nlen, len, cap) ==
  /\ nlen.hi * len.hi = 0
  /\ nlen.hi * len.lo + nlen.lo * len.hi = 0
  /\ nlen.lo * len.lo <= cap

(* C8: a successful zero_allocate(n, s) returns a region of n * s bytes    *)
(* that are all zero.                                                      *)
C8_ZeroFilledRegion ==
  \A a \in HeapCallocArgs, os \in BrkChoices :
    \A r \in {lcalloc(St, a[1], a[2], os)} :
      r.ret # NULL =>
        /\ ProductFits(a[1], a[2], Capacity(r.st, r.ret))
        /\ \A w \in WordsOf(r.ret, SizeMul(a[1], a[2]).lo) : r.st.mem[w] = 0

(* the part of C8 the code keeps: the bytes of the machine product are     *)
(* zero, also in a reused block                                            *)
C8_MachineProductZeroed ==
  \A a \in HeapCallocArgs, os \in BrkChoices :
    \A r \in {lcalloc(St, a[1], a[2], os)} :
      r.ret # NULL =>
        /\ Capacity(r.st, r.ret) >= SizeMul(a[1], a[2]).lo
        /\ \A w \in WordsOf(r.ret, SizeMul(a[1], a[2]).lo) : r.st.mem[w] = 0

(* the units from b up to e lie in a free block of the list *)
Released(st, b, e) == Covers(st, b, e) # {}

(* C9: a successful resize of a live heap block to a len below its length  *)
(* returns another pointer, whose first len bytes are those of the block   *)
(* at the call, and the block is free afterwards.                          *)
C9_ResizePreserves ==
  \A l \in HeapLive, len \in HeapLens, os \in BrkChoices :
    len < l.len =>
      \A r \in {lrealloc(St, l.ptr, len, os)} :
        r.ret # NULL =>
          /\ r.ret # l.ptr
          /\ \A i \in 0..((len \div WORD) - 1) :
               r.st.mem[r.ret + i * WORD] = mem[l.ptr + i * WORD]
          /\ Released(r.st, l.ptr - HDR, EndOf(St, l.ptr - HDR))

(* a written block of two words is resized to one word *)
C9_Witness ==
  \E l \in HeapLive :
    /\ l.w /\ l.len = 2 * WORD
    /\ \E r \in {lrealloc(St, l.ptr, WORD, 1)} :
         r.ret # NULL /\ r.st.mem[r.ret] = Pat(0) /\ r.ret < l.ptr

(* C10: a resize that returns NULL leaves the block of p in use, linked    *)
(* or tagged as before, with its content.                                  *)
C10_FailedResizeKeepsBlock ==
  \A l \in live, len \in MapLens, os \in OSChoices :
    \A r \in {lrealloc(St, l.ptr, len, os)} :
      r.ret = NULL =>
        IF IsHeapPtr(l.ptr)
        THEN /\ l.ptr - HDR \in Range(Blocks(r.st))
             /\ ~IsFree(r.st, l.ptr - HDR)
             /\ \A f \in {"isfree", "size", "prev", "next"} :
                  Rd(r.st, l.ptr - HDR, f) = Rd(St, l.ptr - HDR, f)
             /\ \A w \in WordsOf(l.ptr, l.len) : r.st.mem[w] = mem[w]
        ELSE /\ r.st.maps[MapIdOf(l.ptr - HDR)] = maps[MapIdOf(l.ptr - HDR)]
             /\ maps[MapIdOf(l.ptr - HDR)].mapped
             /\ Rd(r.st, l.ptr - HDR, "next") = LMEM_NEXT_MMAP

(* a written heap block and a written mapped block whose resizes fail *)
C10_Witness ==
  /\ \E l \in HeapLive : l.w /\ lrealloc(St, l.ptr, WORD, 0).ret = NULL
                         /\ lrealloc(St, l.ptr, LMEM_MMAP_TRESHOLD, 0).ret = NULL
  /\ \E l \in MapLive : maps[MapIdOf(l.ptr - HDR)].fill = FILL_PAT
                        /\ lrealloc(St, l.ptr, WORD, 0).ret = NULL

(* ceil(len / header unit) + 1 *)
Required(len) == IF len % HDR = 0 THEN len \div HDR + 1 ELSE len \div HDR + 2

(* the free blocks of at least R units, in list order *)
FreeFitting(st, R) ==
  SelectSeq(Blocks(st), LAMBDA b : IsFree(st, b) /\ Size(st, b) >= R)

(* C11: an allocate below the threshold that finds free blocks of at least *)
(* R = ceil(len / unit) + 1 units returns the first of them in list order, *)
(* the one at the lowest address, whatever the sizes of the later ones,    *)
(* and leaves the break alone; only without such a block is the heap grown *)
C11_FirstFit ==
  \A len \in HeapLens, os \in BrkChoices :
    \A fit \in {FreeFitting(St, Required(len))}, r \in {lmalloc(St, len, os)} :
      IF fit # <<>>
      THEN /\ r.ret = fit[1] + HDR
           /\ \A b \in Range(fit) : fit[1] <= b
           /\ r.st.os_brk = os_brk /\ r.st.last_break = last_break
      ELSE r.ret # NULL =>
             /\ r.st.os_brk > os_brk
             /\ r.ret - HDR \notin Range(Blocks(St))

(* a free block of two units before a free block of one unit: a request    *)
(* for one unit takes the first                                            *)
C11_Witness ==
  \E fit \in {FreeFitting(St, 1)} :
    /\ Len(fit) >= 2 /\ Size(St, fit[1]) = 2 /\ Size(St, fit[2]) = 1
    /\ lmalloc(St, 0, 0).ret = fit[1] + HDR

(* the links and sizes of the listed blocks *)
Links(st) ==
  [b \in Range(Blocks(st)) |->
     <<Rd(st, b, "size"), Rd(st, b, "prev"), Rd(st, b, "next")>>]

(* C12: allocate takes a free block b of S units for R units.  With S > R  *)
(* b ends in use with R units, followed by a new free block of S - R units *)
(* that has b's former successor (and is tail if b was); with S = R b is   *)
(* marked in use and the list keeps its blocks and links.                  *)
C12_SplitOnStrictExcess ==
  \A len \in HeapLens, os \in BrkChoices :
    \A R \in {Required(len)}, fit \in {FreeFitting(St, Required(len))} :
      fit # <<>> =>
        \A b \in {fit[1]}, r \in {lmalloc(St, len, os)} :
        \A S \in {Size(St, b)}, u \in {b + R * HDR}, n \in {Rd(St, b, "next")} :
          /\ ~IsFree(r.st, b) /\ r.st.head = head
          /\ IF S > R
             THEN /\ Size(r.st, b) = R
                  /\ Rd(r.st, b, "next") = u /\ Rd(r.st, b, "prev") = Rd(St, b, "prev")
                  /\ IsFree(r.st, u) /\ Size(r.st, u) = S - R
                  /\ Rd(r.st, u, "prev") = b /\ Rd(r.st, u, "next") = n
                  /\ n # NULL => Rd(r.st, n, "prev") = u
                  /\ r.st.tail = (IF b = tail THEN u ELSE tail)
                  /\ Len(Blocks(r.st)) = Len(Blocks(St)) + 1
                  /\ \A c \in Range(Blocks(St)) \ {b, n} : Links(r.st)[c] = Links(St)[c]
             ELSE /\ Blocks(r.st) = Blocks(St)
                  /\ Links(r.st) = Links(St)
                  /\ r.st.tail = tail

(* a free head block of one unit, a block in use and a free tail block of  *)
(* three units: a request for one unit takes the head whole, a request for *)
(* two units splits the tail and moves tail to the remainder               *)
C12_Witness ==
  /\ head # NULL /\ IsFree(St, head) /\ Size(St, head) = 1
  /\ IsFree(St, tail) /\ Size(St, tail) = 3
  /\ \E r \in {lmalloc(St, 0, 0)} :
       r.ret = head + HDR /\ Blocks(r.st) = Blocks(St)
  /\ \E r \in {lmalloc(St, WORD, 0)} :
       /\ r.ret = tail + HDR /\ r.st.tail = tail + 2 * HDR
       /\ IsFree(r.st, r.st.tail) /\ Size(r.st, r.st.tail) = 1

(* C13: when no free block fits, a successful allocate advances the break  *)
(* by exactly R units, also behind a free tail block; the new block of R   *)
(* units, in use, starts at the previous break, is tail with the old tail  *)
(* as prev, and is head if the list was empty.                             *)
C13_ExactGrowthAndAppend ==
  \A len \in HeapLens, os \in BrkChoices :
    \A R \in {Required(len)}, r \in {lmalloc(St, len, os)} :
      FreeFitting(St, R) = <<>> /\ r.ret # NULL =>
        \A b \in {r.ret - HDR} :
          /\ b = os_brk
          /\ r.st.os_brk = os_brk + R * HDR
          /\ r.st.last_break = r.st.os_brk
          /\ Size(r.st, b) = R /\ ~IsFree(r.st, b)
          /\ r.st.tail = b
          /\ Rd(r.st, b, "prev") = tail /\ Rd(r.st, b, "next") = NULL
          /\ tail # NULL => Rd(r.st, tail, "next") = b
          /\ r.st.head = (IF head = NULL THEN b ELSE head)
          /\ Blocks(r.st) = Blocks(St) \o <<b>>
          /\ \A c \in Range(Blocks(St)) \ {tail} : Links(r.st)[c] = Links(St)[c]
          /\ tail # NULL => /\ Size(r.st, tail) = Size(St, tail)
                            /\ IsFree(r.st, tail) = IsFree(St, tail)

(* behind a free tail block of one unit a request for two units is granted: *)
(* the break moves by two units and the new block is appended              *)
C13_Witness ==
  /\ tail # NULL /\ tail # head /\ IsFree(St, tail) /\ Size(St, tail) = 1
  /\ \E r \in {lmalloc(St, WORD, 1)} :
       /\ r.ret = os_brk + HDR
       /\ r.st.os_brk = os_brk + 2 * HDR
       /\ r.st.tail = os_brk /\ Rd(r.st, os_brk, "prev") = tail

(* C14: an allocate whose break request is refused leaves last_break as it *)
(* was, and an allocate that needs growth which the OS grants (the break   *)
(* plus R units is within the OS's limit) succeeds, also after refusals.   *)
C14_FailedGrowthKeepsBreak ==
  \A len \in HeapLens : \A R \in {Required(len)} :
    FreeFitting(St, R) = <<>> =>
      /\ \A r \in {lmalloc(St, len, 0)} :
           r.ret = NULL /\ (last_break # NULL => r.st.last_break = last_break)
      /\ os_brk + R * HDR <= HeapLimit => lmalloc(St, len, 1).ret # NULL

(* the live heap blocks in use whose predecessor and successor are free *)
BetweenFree(st) ==
  {b \in Range(Blocks(st)) :
     /\ b + HDR \in LivePtrs /\ ~IsFree(st, b)
     /\ Rd(st, b, "prev") # NULL /\ IsFree(st, Rd(st, b, "prev"))
     /\ Rd(st, b, "next") # NULL /\ IsFree(st, Rd(st, b, "next"))}

(* C15: the release of a block B between a free P and a free N leaves one  *)
(* free block at P of P.size + B.size + N.size units with N's former       *)
(* successor (tail if N was tail); B and N are off the list.  After the    *)
(* first merge B is off the list and its own next link still names N.      *)
C15_ReleaseBetweenFree ==
  \A B \in BetweenFree(St) :
    \A P \in {Rd(St, B, "prev")}, N \in {Rd(St, B, "next")} :
    \A NN \in {Rd(St, N, "next")}, s1 \in {lfree_left_merge(St, B)}, s \in {lfree(St, B + HDR)} :
      /\ B \notin Range(Blocks(s1)) /\ Rd(s1, B, "next") = N
      /\ N \in Range(Blocks(s1)) /\ Size(s1, P) = Size(St, P) + Size(St, B)
      /\ P \in Range(Blocks(s)) /\ IsFree(s, P)
      /\ Size(s, P) = Size(St, P) + Size(St, B) + Size(St, N)
      /\ Rd(s, P, "next") = NN /\ Rd(s, P, "prev") = Rd(St, P, "prev")
      /\ NN # NULL => Rd(s, NN, "prev") = P
      /\ s.tail = (IF N = tail THEN P ELSE tail) /\ s.head = head
      /\ B \notin Range(Blocks(s)) /\ N \notin Range(Blocks(s))
      /\ Len(Blocks(s)) = Len(Blocks(St)) - 2
      /\ \A c \in Range(Blocks(St)) \ {P, B, N, NN} : Links(s)[c] = Links(St)[c]

(* a block in use after a free head block and before a free block that is  *)
(* followed by a block in use                                              *)
C15_Witness ==
  \E B \in BetweenFree(St) :
    /\ Rd(St, B, "prev") = head
    /\ Rd(St, B, "next") # tail
    /\ ~IsFree(St, tail)
    /\ Blocks(lfree(St, B + HDR)) = <<head, tail>>

(* C16: a successful resize of a heap block to a len above its usable size *)
(* copies len bytes from p: the words of the result from the usable size   *)
(* on are the words that lay behind the end of p's block when the copy ran *)
(* (the header of the following block, or of the new block itself when p   *)
(* was tail), and are indeterminate where that lies outside the break.     *)
C16_ResizeReadsPastBlock ==
  \A l \in HeapLive, len \in HeapLens, os \in BrkChoices :
    len > Capacity(St, l.ptr) =>
      \A r0 \in {lmalloc(St, len, os)}, r \in {lrealloc(St, l.ptr, len, os)} :
        r.ret # NULL =>
          /\ r.ret = r0.ret
          /\ \A i \in (Capacity(St, l.ptr) \div WORD)..((len \div WORD) - 1) :
             \A a \in {l.ptr + i * WORD} :
               /\ a >= EndOf(St, l.ptr - HDR)
               /\ r.st.mem[r.ret + i * WORD] =
                    (IF a < r0.st.os_brk /\ ~(r.ret <= a /\ a < r.ret + len)
                     THEN r0.st.mem[a] ELSE INDET)

(* a live block without usable bytes before a block in use of two units is *)
(* resized to two words: the result holds the isfree and size fields of    *)
(* the block behind it                                                     *)
C16_Witness ==
  \E l \in HeapLive :
    /\ Capacity(St, l.ptr) = 0
    /\ \E N \in {Rd(St, l.ptr - HDR, "next")} :
         /\ N # NULL /\ ~IsFree(St, N) /\ Size(St, N) = 2
         /\ \E r \in {lrealloc(St, l.ptr, 2 * WORD, 1)} :
              /\ r.ret # NULL
              /\ r.st.mem[r.ret] = 0 /\ r.st.mem[r.ret + WORD] = 2

(* x rounded up to a multiple of the page size *)
RoundUpPage(x) ==
  IF x % LMEM_PAGESIZE = 0 THEN x ELSE (x \div LMEM_PAGESIZE + 1) * LMEM_PAGESIZE

(* C17: every live mapped block has the mapping tag in next and a stored   *)
(* size equal to the length of its OS mapping, which is its request plus   *)
(* the header rounded up to pages; its release unmaps that mapping whole   *)
(* and nothing else, and every mapping belongs to one live block.          *)
C17_MappingBookkeeping ==
  /\ \A l \in MapLive : \A i \in {MapIdOf(l.ptr - HDR)} :
       /\ l.ptr = MapBase(i) + HDR
       /\ maps[i].mapped
       /\ maps[i].next = LMEM_NEXT_MMAP
       /\ maps[i].size = maps[i].oslen
       /\ maps[i].oslen = RoundUpPage(l.len + HDR)
       /\ \A s \in {lfree(St, l.ptr)} :
            /\ s.maps = [maps EXCEPT ![i] = NoMap]
            /\ HeapPart(s) = HeapPart(St)
  /\ \A i \in MapIds :
       maps[i].mapped => \E l \in MapLive : l.ptr = MapBase(i) + HDR

(* a mapping shrunk to one page by a resize beside a mapping of the        *)
(* threshold length, with no slot left for a further mapping               *)
C17_Witness ==
  /\ \E l \in MapLive :
       l.len = WORD /\ maps[MapIdOf(l.ptr - HDR)].size = LMEM_PAGESIZE
  /\ \E l \in MapLive :
       /\ l.len = LMEM_MMAP_TRESHOLD
       /\ maps[MapIdOf(l.ptr - HDR)].size = LMEM_MMAP_TRESHOLD + LMEM_PAGESIZE
       /\ \A os \in OSChoices : lrealloc(St, l.ptr, WORD, os).ret # NULL => os # 0
  /\ \A os \in OSChoices : lmalloc(St, LMEM_MMAP_TRESHOLD, os).ret = NULL

(* the blocks met from b by following next, n of them at most *)
RECURSIVE Walk(_, _, _)
Walk(st, b, n) ==
  IF b = NULL \/ b = LMEM_NEXT_MMAP \/ n = 0 THEN <<>>
  ELSE <<b>> \o Walk(st, Rd(st, b, "next"), n - 1)

(* C18: head is NULL iff tail is; else head has no prev, tail no next, the *)
(* prev of each successor is its predecessor, the walk from head meets no  *)
(* block twice and ends at tail, each block has at least one unit and none *)
(* carries the mapping tag; the first-fit scan ends and a live heap block  *)
(* is not released as a mapping.                                           *)
C18_ListWellFormed ==
  /\ (head = NULL) <=> (tail = NULL)
  /\ \A w \in {Walk(St, head, MaxUnits + 1)} :
       /\ Len(w) <= MaxUnits
       /\ \A i, j \in 1..Len(w) : w[i] = w[j] => i = j
       /\ \A i \in 1..Len(w) :
            /\ w[i] \in WordAddrs
            /\ Size(St, w[i]) >= 1
            /\ Rd(St, w[i], "next") # LMEM_NEXT_MMAP
            /\ Rd(St, w[i], "prev") = (IF i = 1 THEN NULL ELSE w[i - 1])
            /\ i = Len(w) => w[i] = tail /\ Rd(St, w[i], "next") = NULL
       /\ \A len \in HeapLens : FirstFit(St, head, Required(len)) \in Range(w) \cup {NULL}
  /\ \A l \in HeapLive :
       /\ l.ptr - HDR \in Range(Walk(St, head, MaxUnits + 1))
       /\ lfree(St, l.ptr).maps = maps

(* a list of four blocks built by growth, split and merge *)
C18_Witness ==
  \E w \in {Walk(St, head, MaxUnits + 1)} :
    /\ Len(w) = 4 /\ w[4] = tail
    /\ IsFree(St, w[1]) /\ ~IsFree(St, w[2]) /\ IsFree(St, w[3]) /\ ~IsFree(St, w[4])
    /\ Size(St, w[1]) = 1 /\ Size(St, w[3]) = 1 /\ Size(St, w[4]) = 2
    /\ last_break = BRK_FAILED

(* the sum of the size fields of the blocks of q *)
RECURSIVE SumSizes(_, _)
SumSizes(st, q) ==
  IF q = <<>> THEN 0 ELSE Size(st, Head(q)) + SumSizes(st, Tail(q))
ListUnits(st) == SumSizes(st, Blocks(st))
(* the units by which the break stands above the initial break *)
GrownUnits(st) == (st.os_brk - HeapBase) \div HDR

(* s has the break of the current state and as many units in its list *)
Conserved(s) ==
  s.os_brk = os_brk /\ ListUnits(s) = ListUnits(St)

(* the sum of the sizes equals the units gained; an allocate served from   *)
(* the list (split or not) and a release (merge or not) keep both          *)
UnitsBalanced ==
  /\ (os_brk - HeapBase) % HDR = 0
  /\ ListUnits(St) = GrownUnits(St)
  /\ \A len \in HeapLens, os \in BrkChoices :
       FreeFitting(St, Required(len)) # <<>> => Conserved(lmalloc(St, len, os).st)
  /\ \A l \in HeapLive : Conserved(lfree(St, l.ptr))

(* C19: the sizes of the listed blocks add up to the units gained from the *)
(* OS by growth; split, merge and release leave the sum and the break as   *)
(* they are, and no step of any operation lowers the break.                *)
C19_SizeConservation ==
  [](UnitsBalanced) /\ [][os_brk' >= os_brk]_vars

(* five units gained, held by three blocks after splits and merges, one of *)
(* which an allocate would split                                           *)
C19_Witness ==
  /\ ListUnits(St) = 5 /\ Len(Blocks(St)) = 3
  /\ os_brk = HeapBase + 5 * HDR
  /\ \E b \in Range(Blocks(St)) : IsFree(St, b) /\ Size(St, b) = 3
  /\ last_break = BRK_FAILED
====
